---- MODULE Spec2Model ----
(***************************************************************************)
(* A model of app/app.py: a Flask service that decodes an image (a data    *)
(* URL posted to /predict, or an uploaded file posted to /classify_image), *)
(* preprocesses it into a (1, 224, 224, 3) tensor, runs the Keras model    *)
(* loaded at startup and maps the arg-max of the scores to a letter.       *)
(*                                                                         *)
(* Representation of the Python values:                                    *)
(*   - a str is a sequence of one-character strings;                       *)
(*   - bytes / a uint8 array is a sequence of integers 0..255;             *)
(*   - an image (numpy array of shape (h, w, 3)) is a sequence of h rows,  *)
(*     each a sequence of w pixels, each a sequence of 3 channel values;   *)
(*   - a numpy array is the record [type |-> "ndarray", a, den]: a is the  *)
(*     nested sequence of integer numerators and den their common          *)
(*     denominator, so that the element is a[..] / den; den is 1 for a     *)
(*     uint8 array and 255 after the division by 255.0 (x / 255.0 is one   *)
(*     float for each x, 0.0 for 0 and 1.0 for 255);                       *)
(*   - a call that may raise returns [ok |-> TRUE, val |-> v] or           *)
(*     [ok |-> FALSE, exc |-> "<exception>"].                              *)
(***************************************************************************)
EXTENDS Integers, Sequences, FiniteSets, TLC

VARIABLES
    name,        \* __name__ of the module: "__main__" (python app.py) or "app" (imported)
    mainpc,      \* position of the module-level code (lines 70-72)
    model,       \* the global `model` (line 16, 18)
    LABEL_MAP,   \* the global `LABEL_MAP` (line 16, 19)
    req,         \* the requests: position in the handler, its locals and its response
    image_bytes, \* preprocessing on its own: the raw bytes of the image file under test
    viaUrl,      \* ... the outcome of preprocess_image on the data URL of image_bytes
    viaStream,   \* ... the outcome of preprocess_image on a stream holding image_bytes
    preds,       \* label decoding on its own: the prediction array under test
    letter       \* ... the letter the handlers' decoding (lines 55-56) gives for it

vars == <<name, mainpc, model, LABEL_MAP, req, image_bytes, viaUrl, viaStream, preds, letter>>

-----------------------------------------------------------------------------
(* Bounds of the model.                                                    *)

\* source images are MaxDim x MaxDim at most (plus the two WideDim strips)
MaxDim == 2
\* a strip of WideDim x 1 and 1 x WideDim pixels: wider than the target, so
\* that the resize also shrinks and the aspect ratio is extreme
WideDim == 225
\* number of requests in flight
NumRequests == 2
\* the model artifacts have up to 26 + ExtraUnits output units
ExtraUnits == 1

-----------------------------------------------------------------------------
(* Python values.                                                          *)

None == [type |-> "NoneType"]
Str(chars) == [type |-> "str", chars |-> chars]
ndarray(a, den) == [type |-> "ndarray", a |-> a, den |-> den]
Ok(v) == [ok |-> TRUE, val |-> v]
Raise(e) == [ok |-> FALSE, exc |-> e]

\* s.startswith(prefix)
startswith(s, prefix) ==
    /\ Len(s) >= Len(prefix)
    /\ SubSeq(s, 1, Len(prefix)) = prefix

\* s.split(',', 1): the list of the parts, split at the first comma only
split_comma_1(s) ==
    IF \E i \in 1..Len(s) : s[i] = ","
    THEN LET i == CHOOSE k \in 1..Len(s) : s[k] = "," /\ \A j \in 1..(k-1) : s[j] # ","
         IN  <<SubSeq(s, 1, i - 1), SubSeq(s, i + 1, Len(s))>>
    ELSE <<s>>

-----------------------------------------------------------------------------
(* base64                                                                  *)

B64Alphabet ==
    << "A","B","C","D","E","F","G","H","I","J","K","L","M","N","O","P","Q","R","S","T","U","V","W","X","Y","Z",
       "a","b","c","d","e","f","g","h","i","j","k","l","m","n","o","p","q","r","s","t","u","v","w","x","y","z",
       "0","1","2","3","4","5","6","7","8","9","+","/" >>

B64Chars == {B64Alphabet[i] : i \in 1..64}

B64Value(ch) == (CHOOSE i \in 1..64 : B64Alphabet[i] = ch) - 1

\* base64.b64encode(b), as the client does to build a data URL: every
\* group of three bytes gives four characters, a last group of one or two
\* bytes is padded with '='
b64encode(b) ==
    LET n == Len(b)
        byte(i) == IF i <= n THEN b[i] ELSE 0
        char(k) ==
            LET g  == 3 * ((k - 1) \div 4)
                j  == (k - 1) % 4
                b0 == byte(g + 1)
                b1 == byte(g + 2)
                b2 == byte(g + 3)
            IN  CASE j = 0 -> B64Alphabet[(b0 \div 4) + 1]
                  [] j = 1 -> B64Alphabet[(b0 % 4) * 16 + (b1 \div 16) + 1]
                  [] j = 2 -> IF g + 2 > n THEN "="
                              ELSE B64Alphabet[(b1 % 16) * 4 + (b2 \div 64) + 1]
                  [] j = 3 -> IF g + 3 > n THEN "="
                              ELSE B64Alphabet[(b2 % 64) + 1]
    IN  [k \in 1..(4 * ((n + 2) \div 3)) |-> char(k)]

IsB64Char(ch) == ch \in B64Chars

\* binascii.a2b_base64 in its default, non-strict mode.  Its loop over the
\* characters keeps quad_pos (data characters read, modulo 4) and pads ('='
\* read since the last data character); characters outside the alphabet
\* are skipped; the loop ends at the first '=' that completes a padding
\* (quad_pos >= 2 and quad_pos + pads >= 4, that '=' counted); data
\* characters left dangling at the end of the input raise binascii.Error.
\* Each quad of data characters gives three bytes, a last group of two or
\* three characters gives one or two.
a2b_base64(s) ==
    LET quad_pos(i) == Cardinality({j \in 1..(i - 1) : IsB64Char(s[j])}) % 4
        pads(i) == Cardinality({j \in 1..(i - 1) :
                        /\ s[j] = "="
                        /\ \A k \in (j + 1)..(i - 1) : ~IsB64Char(s[k])})
        ends(i) == s[i] = "=" /\ quad_pos(i) >= 2 /\ quad_pos(i) + pads(i) + 1 >= 4
        Pads == {i \in 1..Len(s) : s[i] = "="}
        stops == \E i \in Pads : ends(i)
        stop == IF stops
                THEN CHOOSE i \in Pads : ends(i) /\ \A j \in Pads : j < i => ~ends(j)
                ELSE Len(s) + 1
        data == SelectSeq(SubSeq(s, 1, stop - 1), IsB64Char)
        m == Len(data)
        v(i) == B64Value(data[i])
        nbytes == 3 * (m \div 4) + (CASE m % 4 = 3 -> 2 [] m % 4 = 2 -> 1 [] OTHER -> 0)
        byte(k) ==
            LET g == 4 * ((k - 1) \div 3)
                j == (k - 1) % 3
            IN  CASE j = 0 -> v(g + 1) * 4 + (v(g + 2) \div 16)
                  [] j = 1 -> (v(g + 2) % 16) * 16 + (v(g + 3) \div 4)
                  [] j = 2 -> (v(g + 3) % 4) * 64 + v(g + 4)
    IN  IF ~stops /\ m % 4 # 0 THEN Raise("binascii.Error")
        ELSE Ok([k \in 1..nbytes |-> byte(k)])

\* faulty variant: a decoder that drops a padded last group
b64decode_whole_quads(encoded) ==
    LET data == SelectSeq(encoded, IsB64Char)
    IN  a2b_base64(SubSeq(data, 1, 4 * (Len(data) \div 4)))

\* base64.b64decode(encoded)
base64_b64decode(encoded) == a2b_base64(encoded)

-----------------------------------------------------------------------------
(* The image codec.  cv2.imdecode is a library call; the files it reads    *)
(* are modelled by one uncompressed raster format: a signature, the width, *)
(* the height, then one (R, G, B) triple per pixel, row by row (the order  *)
(* in which PNG stores its samples).  Everything else is not an image.     *)

Signature == <<137, 80>>

\* whether buf is a well-formed file of the format
IsImageFile(buf) ==
    /\ Len(buf) >= 4
    /\ SubSeq(buf, 1, 2) = Signature
    /\ buf[3] >= 1
    /\ buf[4] >= 1
    /\ Len(buf) = 4 + 3 * buf[3] * buf[4]

\* np.frombuffer(b, np.uint8): the same bytes as a uint8 array
np_frombuffer(b) == b

\* cv2.imdecode(nparr, cv2.IMREAD_COLOR): an (h, w, 3) array in B, G, R
\* order; None when the buffer holds no image; an empty buffer raises.
cv2_imdecode(nparr) ==
    IF Len(nparr) = 0 THEN Raise("cv2.error")
    ELSE IF ~IsImageFile(nparr) THEN Ok(None)
    ELSE LET w == nparr[3]
             h == nparr[4]
             at(y, x, c) == nparr[4 + 3 * ((y - 1) * w + (x - 1)) + c]
         IN  Ok(ndarray([y \in 1..h |-> [x \in 1..w |->
                    << at(y, x, 3), at(y, x, 2), at(y, x, 1) >>]], 1))

\* faulty variant: a conversion that is left out: the array stays in B, G, R order
cvtColor_left_out(img) ==
    IF img.type = "NoneType" THEN Raise("cv2.error") ELSE Ok(img)

\* faulty variant: a conversion that takes None for a blank 1 x 1 image
cvtColor_blank_for_None(img) ==
    IF img.type = "NoneType" THEN Ok(ndarray(<< << <<0, 0, 0>> >> >>, 1))
    ELSE Ok(ndarray([y \in 1..Len(img.a) |-> [x \in 1..Len(img.a[y]) |->
                << img.a[y][x][3], img.a[y][x][2], img.a[y][x][1] >>]], img.den))

\* cv2.cvtColor(img, cv2.COLOR_BGR2RGB): raises on None, else swaps the
\* first and the third channel of every pixel
cv2_cvtColor_BGR2RGB(img) ==
    IF img.type = "NoneType" THEN Raise("cv2.error")
    ELSE Ok(ndarray([y \in 1..Len(img.a) |-> [x \in 1..Len(img.a[y]) |->
                << img.a[y][x][3], img.a[y][x][2], img.a[y][x][1] >>]], img.den))

\* target_size=(224, 224), the default of preprocess_image
target_size == <<224, 224>>

\* The sizes of the source images of the model, for which the interpolation
\* coefficients are tabulated.
SourceSizes == (1..MaxDim) \cup {WideDim}

\* cv2.resize's bilinear coefficients (INTER_LINEAR, the default) for
\* destination coordinate d (0-based) of dn, from a source of sn: the two
\* source coordinates (1-based) and their weights, which sum to 2048.
ResizeCoef(sn, dn, d) ==
    LET num == (2 * d + 1) * sn - dn      \* (d + 0.5) * sn / dn - 0.5, times 2 * dn
        den == 2 * dn
        fl  == IF num < 0 THEN 0 ELSE num \div den
        s0  == IF fl >= sn - 1 THEN sn - 1 ELSE fl
        fr  == IF num < 0 \/ fl >= sn - 1 THEN 0 ELSE num - fl * den
        a1  == (2 * 2048 * fr + den) \div (2 * den)
    IN  << s0 + 1, IF s0 + 2 > sn THEN sn ELSE s0 + 2, 2048 - a1, a1 >>

ResizeTable(dn) == [sn \in SourceSizes |-> [d \in 1..dn |-> ResizeCoef(sn, dn, d - 1)]]

ColTable == ResizeTable(target_size[1])
RowTable == ResizeTable(target_size[2])

\* cv2.resize(img, dsize) with dsize = (width, height): the result has
\* `height` rows of `width` pixels whatever the size of img; each value is
\* the rounded bilinear interpolation of the source.
cv2_resize(img, dsize) ==
    LET h == Len(img.a)
        w == Len(img.a[1])
        px(y, x, c) == img.a[y][x][c]
    IN  ndarray(
        [y \in 1..dsize[2] |->
            LET cy == RowTable[h][y] IN
            [x \in 1..dsize[1] |->
                LET cx == ColTable[w][x] IN
                [c \in 1..3 |->
                    ( cy[3] * (cx[3] * px(cy[1], cx[1], c) + cx[4] * px(cy[1], cx[2], c))
                    + cy[4] * (cx[3] * px(cy[2], cx[1], c) + cx[4] * px(cy[2], cx[2], c))
                    + 2097152 ) \div 4194304 ]]],
        img.den)

\* faulty variant: a division by 128.0
divide_128(img) == ndarray(img.a, 128 * img.den)

\* img / 255.0: the float array of the quotients, kept as numerators over 255
divide_255(img) == ndarray(img.a, 255 * img.den)

\* np.expand_dims(img, axis=0)
np_expand_dims_0(img) == ndarray(<<img.a>>, img.den)

\* tensor.shape
shape(t) == << Len(t.a), Len(t.a[1]), Len(t.a[1][1]), Len(t.a[1][1][1]) >>

-----------------------------------------------------------------------------
(* preprocess_image (lines 23-43)                                          *)

DataImagePrefix == << "d","a","t","a",":","i","m","a","g","e" >>

\* file.read() of a FileStorage: the bytes from the current position on
read(file) == SubSeq(file.buf, file.pos + 1, Len(file.buf))

\* lines 25-34: the decoded image, or the exception raised on the way.
\* A str that does not start with 'data:image', None and any other JSON
\* value take the else branch and have no read().
decode_input(data) ==
    IF data.type = "str" /\ startswith(data.chars, DataImagePrefix) THEN
        LET parts == split_comma_1(data.chars) IN
        IF Len(parts) # 2 THEN Raise("ValueError")     \* header, encoded = ...
        ELSE LET image_bytes_ == base64_b64decode(parts[2]) IN
             IF ~image_bytes_.ok THEN image_bytes_
             ELSE cv2_imdecode(np_frombuffer(image_bytes_.val))
    ELSE IF data.type # "FileStorage" THEN Raise("AttributeError")
    ELSE cv2_imdecode(np_frombuffer(read(data)))

\* lines 36-43
preprocess_image(data) ==
    LET img == decode_input(data) IN
    IF ~img.ok THEN img
    ELSE LET rgb == cv2_cvtColor_BGR2RGB(img.val) IN
         IF ~rgb.ok THEN rgb
         ELSE Ok(np_expand_dims_0(divide_255(cv2_resize(rgb.val, target_size))))

-----------------------------------------------------------------------------
(* The inputs of the model.                                                *)

\* (R, G, B) colours of the images: black, pure blue, orange
Black  == <<0, 0, 0>>
Blue   == <<0, 0, 255>>
Orange == <<255, 128, 0>>

\* the colours of the image files preprocess_image is given on its own
Colors == {Blue, Orange}

\* n copies of the sequence s, one after the other
Repeat(s, n) == [i \in 1..(n * Len(s)) |-> s[((i - 1) % Len(s)) + 1]]

\* the file of a w x h image whose first pixel is c1 and whose others are c2
ImageFile(w, h, c1, c2) == Signature \o <<w, h>> \o c1 \o Repeat(c2, w * h - 1)

SourceDims == ((1..MaxDim) \X (1..MaxDim)) \cup {<<WideDim, 1>>, <<1, WideDim>>}

ImageFiles == {ImageFile(d[1], d[2], c1, c2) : d \in SourceDims, c1 \in Colors, c2 \in Colors}

\* byte strings that are no image: nothing, text, a foreign signature, a
\* truncated file, a file of width 0
NotImages ==
    { <<>>,
      <<104, 105>>,
      <<66, 77, 1, 1, 0, 0, 255>>,
      Signature \o <<1, 1, 0, 0>>,
      Signature \o <<0, 1>> }

\* the FileStorage of an upload, before anything has read it
FileStorage(filename, buf) ==
    [type |-> "FileStorage", filename |-> filename, buf |-> buf, pos |-> 0]

MediaTypes ==
    { << "/","p","n","g",";","b","a","s","e","6","4" >>,
      << "/","j","p","e","g",";","b","a","s","e","6","4" >> }

\* 'data:image<media type>,' + base64(b)
DataUrl(mt, b) == Str(DataImagePrefix \o mt \o <<",">> \o b64encode(b))

-----------------------------------------------------------------------------
(* Values of the variables a specification does not use.                   *)

NotCalled == [called |-> FALSE]
Called(result) == [called |-> TRUE, result |-> result]
Undefined == [type |-> "undefined"]

ServerIdle ==
    /\ name = "idle"
    /\ mainpc = "idle"
    /\ model = Undefined
    /\ LABEL_MAP = Undefined
    /\ req = <<>>

PreIdle == image_bytes = <<>> /\ viaUrl = NotCalled /\ viaStream = NotCalled

LabelIdle == preds = <<>> /\ letter = NotCalled

-----------------------------------------------------------------------------
(* preprocess_image on its own: one image file, given once as a data URL   *)
(* and once as an uploaded stream.                                         *)

InitPre ==
    /\ image_bytes \in ImageFiles \cup NotImages
    /\ viaUrl = NotCalled
    /\ viaStream = NotCalled
    /\ ServerIdle
    /\ LabelIdle

PreprocessDataUrl ==
    /\ ~viaUrl.called
    /\ \E mt \in MediaTypes :
         viaUrl' = Called(preprocess_image(DataUrl(mt, image_bytes)))
    /\ UNCHANGED <<name, mainpc, model, LABEL_MAP, req, image_bytes, viaStream, preds, letter>>

PreprocessStream ==
    /\ ~viaStream.called
    /\ viaStream' = Called(preprocess_image(FileStorage("upload.png", image_bytes)))
    /\ UNCHANGED <<name, mainpc, model, LABEL_MAP, req, image_bytes, viaUrl, preds, letter>>

NextPre == PreprocessDataUrl \/ PreprocessStream

SpecPre == InitPre /\ [][NextPre]_vars

-----------------------------------------------------------------------------
(* The model and the Label Map (load_model, lines 15-20).                  *)

\* string.ascii_uppercase
ascii_uppercase ==
    << "A","B","C","D","E","F","G","H","I","J","K","L","M",
       "N","O","P","Q","R","S","T","U","V","W","X","Y","Z" >>

\* {i: letter for i, letter in enumerate(string.ascii_uppercase)}
enumerate_dict(letters) ==
    [type |-> "dict", items |-> [i \in 0..(Len(letters) - 1) |-> letters[i + 1]]]

\* The artifacts that may lie at model_path: nothing readable, or a
\* classifier.  A classifier is a deterministic function of the tensor with
\* `units` output scores: the scores are 0.9 at the unit the first pixel
\* and the weight `shift` select and again three units further (a tie), 0.1
\* elsewhere.
Shifts == {0, 26}
Models == {[type |-> "model", units |-> 26 + e, shift |-> sh] : e \in 0..ExtraUnits, sh \in Shifts}
Missing == [type |-> "missing"]
Artifacts == Models \cup {Missing}

\* tf.keras.models.load_model(model_path)
keras_load_model(artifact) ==
    IF artifact.type = "model" THEN Ok(artifact) ELSE Raise("OSError")

\* model.predict(img): an array of shape (1, units)
keras_predict(m, img) ==
    LET px  == img.a[1][1][1]
        hot == (px[1] + px[2] + px[3] + m.shift) % m.units
    IN  ndarray(<< [i \in 1..m.units |->
                      IF i - 1 = hot \/ i - 1 = hot + 3 THEN 9 ELSE 1] >>, 10)

\* the flattened array, as np.argmax reads an array when no axis is given
flatten(arr) ==
    LET rows == Len(arr.a)
        cols == Len(arr.a[1])
    IN  [k \in 1..(rows * cols) |-> arr.a[((k - 1) \div cols) + 1][((k - 1) % cols) + 1]]

\* faulty variant: an arg-max that takes the last occurrence of the maximum
argmax_last(arr) ==
    LET flat == [k \in 1..Len(arr.a[1]) |-> arr.a[1][k]]
    IN  (CHOOSE i \in 1..Len(flat) :
            /\ \A j \in 1..Len(flat) : flat[j] <= flat[i]
            /\ \A j \in (i + 1)..Len(flat) : flat[j] < flat[i]) - 1

\* np.argmax(arr): the 0-based index of the first occurrence of the maximum
np_argmax(arr) ==
    LET flat == flatten(arr)
    IN  (CHOOSE i \in 1..Len(flat) :
            /\ \A j \in 1..Len(flat) : flat[j] <= flat[i]
            /\ \A j \in 1..(i - 1) : flat[j] < flat[i]) - 1

\* faulty variant: a lookup that wraps an unknown index around instead of giving the default
dict_get_wrapped(d, key, default) == d.items[key % Cardinality(DOMAIN d.items)]

\* d.get(key, default)
dict_get(d, key, default) == IF key \in DOMAIN d.items THEN d.items[key] ELSE default

\* lines 54-56 of predict: index = int(np.argmax(preds)); LABEL_MAP.get(index, '?')
predict_letter(predictions, label_map) == dict_get(label_map, np_argmax(predictions), "?")

\* faulty variant: a decoding that counts the letters from 1
classify_letter_from_1(predictions, label_map) ==
    dict_get(label_map, np_argmax(predictions) + 1, "?")

\* lines 65-67 of classify_image: the same two statements
classify_letter(predictions, label_map) == dict_get(label_map, np_argmax(predictions), "?")

-----------------------------------------------------------------------------
(* The requests.                                                           *)

Requests == 1..NumRequests

\* the images the requests carry
ServerImages == { ImageFile(1, 1, Blue, Blue), ImageFile(2, 1, Black, Orange) }

\* the JSON object {"image": v}; Absent for an object without the key
Absent == [type |-> "absent"]
JsonObject(v) == [type |-> "dict", image |-> v]

PngType == << "/","p","n","g",";","b","a","s","e","6","4" >>

\* The bodies posted to /predict, as request.get_json() returns them, each
\* with the name of its case and the image bytes it carries.
PredictInputs ==
    { [kind |-> "null body", bytes |-> <<>>, payload |-> None],
      [kind |-> "no image field", bytes |-> <<>>, payload |-> JsonObject(Absent)],
      [kind |-> "no data:image prefix", bytes |-> <<>>,
          payload |-> JsonObject(Str(<< "h","e","l","l","o",",","Q","U","I","=" >>))],
      [kind |-> "no comma", bytes |-> <<>>,
          payload |-> JsonObject(Str(DataImagePrefix \o PngType))],
      [kind |-> "malformed base64", bytes |-> <<>>,
          payload |-> JsonObject(Str(DataImagePrefix \o PngType \o << ",","i","V","B","O","R" >>))],
      [kind |-> "not an image", bytes |-> <<104, 105>>,
          payload |-> JsonObject(DataUrl(PngType, <<104, 105>>))],
      [kind |-> "no data", bytes |-> <<>>,
          payload |-> JsonObject(DataUrl(PngType, <<>>))] }
    \cup
    { [kind |-> "image", bytes |-> b, payload |-> JsonObject(DataUrl(PngType, b))] :
          b \in ServerImages }

\* The uploads posted to /classify_image, as request.files.get('image')
\* returns them.
ClassifyInputs ==
    { [kind |-> "no file field", bytes |-> <<>>, payload |-> None],
      [kind |-> "empty filename", bytes |-> <<>>, payload |-> FileStorage("", <<>>)],
      [kind |-> "not an image", bytes |-> <<104, 105>>,
          payload |-> FileStorage("hand.png", <<104, 105>>)],
      [kind |-> "no data", bytes |-> <<>>, payload |-> FileStorage("hand.png", <<>>)] }
    \cup
    { [kind |-> "image", bytes |-> b, payload |-> FileStorage("hand.png", b)] :
          b \in ServerImages }

NoRequest ==
    [ pc |-> "none", endpoint |-> "", kind |-> "", bytes |-> <<>>, payload |-> None,
      preds |-> None, response |-> None,
      preprocess_calls |-> 0, predict_calls |-> 0, label_reads |-> 0 ]

\* jsonify(...) with its status, and the server error of an uncaught exception
Response(status, key, value) == [type |-> "response", status |-> status, body |-> <<key, value>>]
ServerError(exc) == Response(500, "exception", exc)

\* the upload once file.read() has returned: at its end
after_read(file) ==
    IF file.type = "FileStorage" THEN [file EXCEPT !.pos = Len(file.buf)] ELSE file

\* faulty variant: a check that is left out
falsy_left_out(file) == FALSE

\* `not file`: None is falsy, a FileStorage is falsy when its filename is empty
falsy(file) == file.type = "NoneType" \/ (file.type = "FileStorage" /\ file.filename = "")

\* data.get('image') on the parsed body: raises on None, None for a missing key
body_get_image(data) ==
    IF data.type # "dict" THEN Raise("AttributeError")
    ELSE IF data.image.type = "absent" THEN Ok(None)
    ELSE Ok(data.image)

\* `model` evaluated by a handler: NameError while load_model has not run
global_model == IF model.type = "model" THEN Ok(model) ELSE Raise("NameError")

Serving == mainpc \in {"run", "imported"}

\* Everything the handlers may hand to preprocess_image, and its outcome.
\* preprocess_image is a function of its argument alone: the handlers look
\* its outcome up here, so that each tensor is computed once.
RequestData ==
    {None}
    \cup {in.payload.image : in \in {i \in PredictInputs : i.payload.type = "dict"}}
    \cup {in.payload : in \in ClassifyInputs}

Preprocessed == [data \in RequestData |-> preprocess_image(data)]

call_preprocess_image(data) ==
    IF data \in RequestData THEN Preprocessed[data] ELSE preprocess_image(data)

-----------------------------------------------------------------------------
(* The program.                                                            *)

\* The state once the module is imported: the app and its routes exist, the
\* globals model and LABEL_MAP do not.  Run as a script (python app.py) the
\* module goes on with lines 70-72; imported by a WSGI host it is served as
\* it is.
Init ==
    /\ name \in {"__main__", "app"}
    /\ mainpc = IF name = "__main__" THEN "start" ELSE "imported"
    /\ model = Undefined
    /\ LABEL_MAP = Undefined
    /\ req = [r \in Requests |-> NoRequest]
    /\ PreIdle
    /\ LabelIdle

\* faulty variant: a script that goes on to app.run() whatever load_model() did
after_load_swallowed(loaded) == "loaded"

\* where the script goes once load_model() has returned or raised (line
\* 71): an uncaught exception ends the process
after_load(loaded) == IF loaded.ok THEN "loaded" ELSE "exit"

\* line 71: load_model()
load_model ==
    /\ name = "__main__"
    /\ mainpc = "start"
    /\ \E artifact \in Artifacts :
         LET loaded == keras_load_model(artifact) IN
         /\ mainpc' = after_load(loaded)
         /\ IF loaded.ok
            THEN /\ model' = loaded.val
                 /\ LABEL_MAP' = enumerate_dict(ascii_uppercase)
            ELSE UNCHANGED <<model, LABEL_MAP>>
    /\ UNCHANGED <<name, req, image_bytes, viaUrl, viaStream, preds, letter>>

\* line 72: app.run(debug=True)
app_run ==
    /\ mainpc = "loaded"
    /\ mainpc' = "run"
    /\ UNCHANGED <<name, model, LABEL_MAP, req, image_bytes, viaUrl, viaStream, preds, letter>>

\* a client posts request r; the requests are numbered as they arrive
Arrive(r) ==
    /\ Serving
    /\ req[r].pc = "none"
    /\ \A q \in Requests : q < r => req[q].pc # "none"
    /\ \E endpoint \in {"/predict", "/classify_image"} :
       \E in \in (IF endpoint = "/predict" THEN PredictInputs ELSE ClassifyInputs) :
         req' = [req EXCEPT ![r] =
                    [NoRequest EXCEPT !.pc = "received", !.endpoint = endpoint,
                                      !.kind = in.kind, !.bytes = in.bytes,
                                      !.payload = in.payload]]
    /\ UNCHANGED <<name, mainpc, model, LABEL_MAP, image_bytes, viaUrl, viaStream, preds, letter>>

\* the request record after preprocess_image has returned or raised and, if
\* it returned, preds = model.predict(img) has run (lines 52-53, 64-65)
after_preprocess(q, img) ==
    IF ~img.ok THEN
        [q EXCEPT !.pc = "responded", !.preprocess_calls = 1,
                  !.response = ServerError(img.exc)]
    ELSE IF ~global_model.ok THEN
        [q EXCEPT !.pc = "responded", !.preprocess_calls = 1,
                  !.response = ServerError(global_model.exc)]
    ELSE
        [q EXCEPT !.pc = "predicted", !.preprocess_calls = 1, !.predict_calls = 1,
                  !.preds = keras_predict(global_model.val, img.val)]

\* predict, lines 51-53
predict_infer(q) ==
    LET image_data == body_get_image(q.payload) IN
    IF ~image_data.ok
    THEN [q EXCEPT !.pc = "responded", !.response = ServerError(image_data.exc)]
    ELSE after_preprocess(q, call_preprocess_image(image_data.val))

\* predict, lines 54-57
predict_respond(q) ==
    [q EXCEPT !.pc = "responded", !.label_reads = 1,
              !.response = Response(200, "prediction", predict_letter(q.preds, LABEL_MAP))]

\* classify_image, lines 61-65; the upload has been read to its end
classify_infer(q) ==
    LET file == q.payload IN
    IF falsy(file)
    THEN [q EXCEPT !.pc = "responded", !.response = Response(400, "error", "No image provided")]
    ELSE after_preprocess([q EXCEPT !.payload = after_read(file)], call_preprocess_image(file))

\* classify_image, lines 66-68
classify_respond(q) ==
    [q EXCEPT !.pc = "responded", !.label_reads = 1,
              !.response = Response(200, "prediction", classify_letter(q.preds, LABEL_MAP))]

\* faulty variant: a handler that takes the letter out of the Label Map (pop for get)
PredictRespondPop(r) ==
    /\ req[r].pc = "predicted" /\ req[r].endpoint = "/predict"
    /\ req' = [req EXCEPT ![r] = predict_respond(req[r])]
    /\ LABEL_MAP' = [LABEL_MAP EXCEPT !.items =
            [i \in (DOMAIN LABEL_MAP.items) \ {np_argmax(req[r].preds)} |-> LABEL_MAP.items[i]]]
    /\ UNCHANGED <<name, mainpc, model, image_bytes, viaUrl, viaStream, preds, letter>>

\* a step of the handler of request r: up to model.predict, then the rest
PredictInfer(r) ==
    /\ req[r].pc = "received" /\ req[r].endpoint = "/predict"
    /\ req' = [req EXCEPT ![r] = predict_infer(req[r])]
    /\ UNCHANGED <<name, mainpc, model, LABEL_MAP, image_bytes, viaUrl, viaStream, preds, letter>>

PredictRespond(r) ==
    /\ req[r].pc = "predicted" /\ req[r].endpoint = "/predict"
    /\ req' = [req EXCEPT ![r] = predict_respond(req[r])]
    /\ UNCHANGED <<name, mainpc, model, LABEL_MAP, image_bytes, viaUrl, viaStream, preds, letter>>

ClassifyInfer(r) ==
    /\ req[r].pc = "received" /\ req[r].endpoint = "/classify_image"
    /\ req' = [req EXCEPT ![r] = classify_infer(req[r])]
    /\ UNCHANGED <<name, mainpc, model, LABEL_MAP, image_bytes, viaUrl, viaStream, preds, letter>>

ClassifyRespond(r) ==
    /\ req[r].pc = "predicted" /\ req[r].endpoint = "/classify_image"
    /\ req' = [req EXCEPT ![r] = classify_respond(req[r])]
    /\ UNCHANGED <<name, mainpc, model, LABEL_MAP, image_bytes, viaUrl, viaStream, preds, letter>>

Next ==
    \/ load_model
    \/ app_run
    \/ \E r \in Requests : Arrive(r)
    \/ \E r \in Requests : PredictInfer(r)
    \/ \E r \in Requests : PredictRespond(r)
    \/ \E r \in Requests : ClassifyInfer(r)
    \/ \E r \in Requests : ClassifyRespond(r)

Spec == Init /\ [][Next]_vars

-----------------------------------------------------------------------------
(* The label decoding of the two handlers on its own: a prediction array,  *)
(* as model.predict may return it, decoded with the Label Map load_model   *)
(* builds.                                                                 *)

\* the scores at the two marked units; every other unit scores 0.1
Scores == {0, 5, 9}

\* a row of n scores with v1 at unit i and v2 at unit j
ScoreRow(n, i, j, v1, v2) ==
    [k \in 1..n |-> IF k = i THEN v1 ELSE IF k = j THEN v2 ELSE 1]

PredictionArrays ==
    { ndarray(<<ScoreRow(n, i, j, v1, v2)>>, 10) :
        n \in 26..(26 + ExtraUnits), i \in 1..26, j \in 1..(26 + ExtraUnits),
        v1 \in Scores, v2 \in Scores }

Decoded(handler, result) == [called |-> TRUE, handler |-> handler, result |-> result]

InitLabel ==
    /\ preds \in PredictionArrays
    /\ letter = NotCalled
    /\ name = "idle"
    /\ mainpc = "idle"
    /\ model = Undefined
    /\ LABEL_MAP = enumerate_dict(ascii_uppercase)
    /\ req = <<>>
    /\ PreIdle

DecodeInPredict ==
    /\ ~letter.called
    /\ letter' = Decoded("predict", predict_letter(preds, LABEL_MAP))
    /\ UNCHANGED <<name, mainpc, model, LABEL_MAP, req, image_bytes, viaUrl, viaStream, preds>>

DecodeInClassify ==
    /\ ~letter.called
    /\ letter' = Decoded("classify_image", classify_letter(preds, LABEL_MAP))
    /\ UNCHANGED <<name, mainpc, model, LABEL_MAP, req, image_bytes, viaUrl, viaStream, preds>>

NextLabel == DecodeInPredict \/ DecodeInClassify

SpecLabel == InitLabel /\ [][NextLabel]_vars

-----------------------------------------------------------------------------
(* Properties of preprocess_image, checked under SpecPre.                  *)

\* the bytes decode to an image
ValidImage(b) == cv2_imdecode(b).ok /\ cv2_imdecode(b).val.type = "ndarray"

\* the (R, G, B) colour the file b gives pixel number k (from 1, row by row)
FilePixel(b, k) == SubSeq(b, 4 + 3 * (k - 1) + 1, 4 + 3 * k)

\* the file b holds one colour only
UniformFile(b) == \A k \in 1..(b[3] * b[4]) : FilePixel(b, k) = FilePixel(b, 1)

Outcomes == {viaUrl, viaStream}

\* C4: encoding-path independence: for every valid image file B, the tensor
\* preprocess_image returns for the data URL 'data:image...,' + base64(B) is
\* the tensor it returns for a byte stream whose read() gives B.
EncodingPathIndependence ==
    (viaUrl.called /\ viaStream.called /\ ValidImage(image_bytes)) =>
        /\ viaUrl.result.ok
        /\ viaStream.result.ok
        /\ viaUrl.result.val = viaStream.result.val

\* C4 witness: a 2 x 2 image of two colours has gone through both paths
EncodingPathWitness ==
    /\ image_bytes = ImageFile(2, 2, Orange, Blue)
    /\ viaUrl.called /\ viaUrl.result.ok
    /\ viaStream.called /\ viaStream.result.ok

\* C6: for every valid image, whatever its width and height, the tensor has
\* shape (1, 224, 224, 3) and every value lies in [0.0, 1.0], a channel
\* value 0..255 over 255; the whole source is stretched over the whole
\* tensor: a source of one colour gives a tensor of one colour (no padding
\* bars), and the corners of a source no larger than the target are the
\* corners of the tensor (no cropping).
TensorShapeAndRange ==
    \A o \in Outcomes :
        (o.called /\ ValidImage(image_bytes)) =>
            /\ o.result.ok
            /\ LET t == o.result.val
                   w == image_bytes[3]
                   h == image_bytes[4]
               IN  /\ shape(t) = <<1, 224, 224, 3>>
                   /\ t.den = 255
                   /\ \A y \in 1..224 : \A x \in 1..224 : \A c \in 1..3 :
                         t.a[1][y][x][c] \in 0..255
                   /\ UniformFile(image_bytes) =>
                         \A y \in 1..224 : \A x \in 1..224 : t.a[1][y][x] = t.a[1][1][1]
                   /\ (w <= 224 /\ h <= 224) =>
                         /\ t.a[1][1][1] = FilePixel(image_bytes, 1)
                         /\ t.a[1][224][224] = FilePixel(image_bytes, w * h)

\* C6 witness: a strip wider than the target and one pixel high has been
\* preprocessed
TensorShapeWitness ==
    /\ image_bytes = ImageFile(WideDim, 1, Blue, Orange)
    /\ viaStream.called /\ viaStream.result.ok
    /\ shape(viaStream.result.val) = <<1, 224, 224, 3>>

\* C7: the tensor is in R, G, B order on both paths: a file of the one
\* colour (R, G, B) gives a tensor whose every pixel is (R/255, G/255,
\* B/255); so a pure blue image gives 0.0 in the first channel and 1.0 in
\* the last.
ChannelOrderRGB ==
    \A o \in Outcomes :
        (o.called /\ ValidImage(image_bytes) /\ UniformFile(image_bytes)) =>
            /\ o.result.ok
            /\ o.result.val.den = 255
            /\ \A y \in 1..224 : \A x \in 1..224 :
                  o.result.val.a[1][y][x] = FilePixel(image_bytes, 1)

\* C7 witness: a pure blue image has gone through both paths and its tensor
\* has 255/255 in the last channel
ChannelOrderWitness ==
    /\ image_bytes = ImageFile(2, 1, Blue, Blue)
    /\ viaUrl.called /\ viaUrl.result.ok
    /\ viaStream.called /\ viaStream.result.ok
    /\ viaUrl.result.val.a[1][1][1] = <<0, 0, 255>>

-----------------------------------------------------------------------------
(* Properties of the label decoding, checked under SpecLabel.              *)

\* the 1-based position of the first maximum of a row of scores
FirstMaximum(row) ==
    CHOOSE i \in 1..Len(row) :
        /\ \A j \in 1..Len(row) : row[j] <= row[i]
        /\ \A j \in 1..(i - 1) : row[j] < row[i]

\* C1: for every prediction vector of 26 scores, both handlers return the
\* letter of the uppercase alphabet at the lowest index that attains the
\* maximum score: index 0 gives 'A', index 25 gives 'Z'.
LabelIsFirstMaximum ==
    (letter.called /\ Len(preds.a[1]) = 26) =>
        LET i == FirstMaximum(preds.a[1]) IN
        /\ letter.result = ascii_uppercase[i]
        /\ i = 1 => letter.result = "A"
        /\ i = 26 => letter.result = "Z"

\* C1 witness: the maximum is attained at indices 2 and 25 and
\* classify_image has answered 'C'
LabelWitness ==
    /\ preds = ndarray(<<ScoreRow(26, 3, 26, 9, 9)>>, 10)
    /\ letter.called
    /\ letter.handler = "classify_image"
    /\ letter.result = "C"

-----------------------------------------------------------------------------
(* Properties of the service, checked under Spec.                          *)

Loaded == model.type = "model" /\ LABEL_MAP.type = "dict"

Responded(r) == req[r].pc = "responded"

\* C2: when the index of the maximum score is no key of the Label Map, both
\* predict and classify_image answer {"prediction": "?"} as a success.
UnknownIndexGivesQuestionMark ==
    \A r \in Requests :
        ( /\ Responded(r)
          /\ req[r].label_reads = 1
          /\ FirstMaximum(req[r].preds.a[1]) - 1 \notin 0..25 ) =>
            req[r].response = Response(200, "prediction", "?")

\* C2 witness: each endpoint has answered '?' for a model of more than 26
\* outputs
UnknownIndexWitness ==
    \E r1 \in Requests : \E r2 \in Requests :
        /\ req[r1].endpoint = "/predict"
        /\ req[r2].endpoint = "/classify_image"
        /\ \A r \in {r1, r2} :
              /\ Responded(r)
              /\ req[r].label_reads = 1
              /\ Len(req[r].preds.a[1]) > 26
              /\ FirstMaximum(req[r].preds.a[1]) = 27
              /\ req[r].response.body = <<"prediction", "?">>

\* C3: a POST to /classify_image without an 'image' file field is answered
\* 400 {"error": "No image provided"}, and neither preprocess_image nor
\* model.predict is called in it.
NoImageIsClientError ==
    \A r \in Requests :
        (req[r].endpoint = "/classify_image" /\ req[r].kind = "no file field") =>
            /\ req[r].payload.type = "NoneType"
            /\ req[r].preprocess_calls = 0
            /\ req[r].predict_calls = 0
            /\ req[r].pc \in {"received", "responded"}
            /\ Responded(r) => req[r].response = Response(400, "error", "No image provided")

\* C3 witness: such a request has been answered
NoImageWitness ==
    \E r \in Requests :
        /\ req[r].endpoint = "/classify_image"
        /\ req[r].kind = "no file field"
        /\ Responded(r)
        /\ req[r].response.status = 400

\* C5: with the model loaded, /predict given an image as a data URL and
\* /classify_image given the same image bytes as an upload return the same
\* {"prediction": letter} response.
EndpointsAgree ==
    \A r1 \in Requests : \A r2 \in Requests :
        ( /\ Loaded
          /\ Responded(r1) /\ req[r1].endpoint = "/predict" /\ req[r1].kind = "image"
          /\ Responded(r2) /\ req[r2].endpoint = "/classify_image" /\ req[r2].kind = "image"
          /\ req[r1].bytes = req[r2].bytes ) =>
            /\ req[r1].response = req[r2].response
            /\ req[r1].response.status = 200
            /\ req[r1].response.body[1] = "prediction"

\* C5 witness: the two endpoints have answered for the same image
EndpointsAgreeWitness ==
    \E r1 \in Requests : \E r2 \in Requests :
        /\ Loaded
        /\ Responded(r1) /\ req[r1].endpoint = "/predict" /\ req[r1].kind = "image"
        /\ Responded(r2) /\ req[r2].endpoint = "/classify_image" /\ req[r2].kind = "image"
        /\ req[r1].bytes = req[r2].bytes
        /\ req[r1].response.status = 200

SharedStateUntouched ==
    /\ [][Loaded => (model' = model /\ LABEL_MAP' = LABEL_MAP)]_vars
    /\ [](LABEL_MAP.type = "dict" =>
            /\ DOMAIN LABEL_MAP.items = 0..25
            /\ \A i \in 0..25 : LABEL_MAP.items[i] = ascii_uppercase[i + 1])
    /\ [][\A r \in Requests : Responded(r) => req'[r] = req[r]]_vars
    /\ [](\A r1 \in Requests : \A r2 \in Requests :
            ( /\ Responded(r1) /\ Responded(r2)
              /\ req[r1].endpoint = req[r2].endpoint
              /\ req[r1].kind = req[r2].kind
              /\ req[r1].bytes = req[r2].bytes ) =>
                req[r1].response = req[r2].response)

\* C9 witness: one request has failed and another, for an image, has been
\* answered with a letter
SharedStateWitness ==
    \E r1 \in Requests : \E r2 \in Requests :
        /\ Loaded
        /\ Responded(r1) /\ req[r1].response.status = 500
        /\ Responded(r2) /\ req[r2].response.status = 200

\* the payloads that cannot be turned into an image
Undecodable(q) ==
    \/ /\ q.endpoint = "/predict"
       /\ q.kind \in { "no image field", "no data:image prefix", "no comma",
                       "malformed base64", "not an image", "no data" }
    \/ /\ q.endpoint = "/classify_image"
       /\ q.kind \in { "not an image", "no data" }

\* C10: a request whose payload cannot be turned into an image fails inside
\* preprocess_image with a server error: it never calls model.predict and
\* never returns a prediction.
UndecodableIsServerError ==
    \A r \in Requests :
        Undecodable(req[r]) =>
            /\ req[r].predict_calls = 0
            /\ req[r].label_reads = 0
            /\ req[r].pc \in {"received", "responded"}
            /\ Responded(r) =>
                  /\ req[r].preprocess_calls = 1
                  /\ req[r].response.status = 500
                  /\ req[r].response.body[1] = "exception"
                  /\ req[r].response.body[2] \in
                        {"AttributeError", "ValueError", "binascii.Error", "cv2.error"}

\* C10 witness: bytes that are no image have failed on both endpoints, with
\* the model loaded
UndecodableWitness ==
    \E r1 \in Requests : \E r2 \in Requests :
        /\ Loaded
        /\ req[r1].endpoint = "/predict" /\ req[r1].kind = "not an image"
        /\ req[r2].endpoint = "/classify_image" /\ req[r2].kind = "not an image"
        /\ Responded(r1) /\ req[r1].response = ServerError("cv2.error")
        /\ Responded(r2) /\ req[r2].response = ServerError("cv2.error")

====
